---- MODULE Spec2Model ----
(***************************************************************************)
(* A model of vector_skill_matrix.py: text normalisation, profile          *)
(* ingestion, the tiered skill matching cascade, the semantic fallback and *)
(* the final ranking.                                                      *)
(*                                                                         *)
(* A Python string is modelled as a sequence of one-character strings, so  *)
(* that strip, lower, replace, split and the substring test are computed   *)
(* character by character as Python computes them.                         *)
(***************************************************************************)
EXTENDS Integers, Sequences, FiniteSets, TLC

VARIABLES
    pc,              \* position of the script
    raw_data,        \* the loaded employee entries (line 88)
    structured_data, \* the normalised profiles (line 92, 152)
    query,           \* the text read by input() (line 177)
    skill_phrase,    \* line 185, rewritten at line 190
    skill_parts,     \* line 191
    top_matches,     \* the merged list (line 196)
    results,         \* the documents the vector index returned (line 236)
    semantic,        \* the semantic matches printed by the fallback loop
    final_matches,   \* line 266
    err,             \* the exception that ended the script, or "none"
    text,            \* the argument of a normalize call (normalize in isolation)
    normed           \* the successive results of normalize on text

vars == <<pc, raw_data, structured_data, query, skill_phrase, skill_parts,
          top_matches, results, semantic, final_matches, err, text, normed>>

(***************************************************************************)
(* Bounds of the model.                                                    *)
(***************************************************************************)
\* longest string over NormAlphabet given to normalize in isolation
MaxLen == 3
\* most employee entries in a corpus
MaxProfiles == 4
\* most raw skill entries of the employee given to the skill list construction
MaxEntries == 3

(***************************************************************************)
(* Python string primitives.                                               *)
(***************************************************************************)
UpperChars == <<"A","B","C","D","E","F","G","H","I","J","K","L","M",
                "N","O","P","Q","R","S","T","U","V","W","X","Y","Z">>

LowerChars == <<"a","b","c","d","e","f","g","h","i","j","k","l","m",
                "n","o","p","q","r","s","t","u","v","w","x","y","z">>

\* characters str.strip() removes
IsSpace(c) == c \in {" ", "\t", "\n", "\r", "\f"}

LowerChar(c) ==
    IF \E i \in 1..Len(UpperChars) : UpperChars[i] = c
    THEN LowerChars[CHOOSE i \in 1..Len(UpperChars) : UpperChars[i] = c]
    ELSE c

UpperChar(c) ==
    IF \E i \in 1..Len(LowerChars) : LowerChars[i] = c
    THEN UpperChars[CHOOSE i \in 1..Len(LowerChars) : LowerChars[i] = c]
    ELSE c

\* str.lower()
Lower(s) == [i \in 1..Len(s) |-> LowerChar(s[i])]

\* str.upper()
Upper(s) == [i \in 1..Len(s) |-> UpperChar(s[i])]

RECURSIVE LStrip(_)
LStrip(s) ==
    IF s = <<>> THEN <<>>
    ELSE IF IsSpace(Head(s)) THEN LStrip(Tail(s)) ELSE s

RECURSIVE RStrip(_)
RStrip(s) ==
    IF s = <<>> THEN <<>>
    ELSE IF IsSpace(s[Len(s)]) THEN RStrip(SubSeq(s, 1, Len(s) - 1)) ELSE s

\* str.strip()
Strip(s) == RStrip(LStrip(s))

\* s.replace(c, "") for a single character c
RemoveChar(s, c) == SelectSeq(s, LAMBDA x : x # c)

\* whether old occurs in s at offset i (0-based)
MatchAt(s, old, i) ==
    /\ i + Len(old) <= Len(s)
    /\ SubSeq(s, i + 1, i + Len(old)) = old

\* "part in name"
Contains(name, part) == \E i \in 0..Len(name) : MatchAt(name, part, i)

\* s.replace(old, new) for a non-empty old: leftmost, non-overlapping
RECURSIVE Replace(_, _, _)
Replace(s, old, new) ==
    IF s = <<>> THEN <<>>
    ELSE IF MatchAt(s, old, 0)
         THEN new \o Replace(SubSeq(s, Len(old) + 1, Len(s)), old, new)
         ELSE <<Head(s)>> \o Replace(Tail(s), old, new)

\* s.split(sep) for a single character sep: one more piece than separators
RECURSIVE Split(_, _)
Split(s, sep) ==
    IF \A i \in 1..Len(s) : s[i] # sep THEN <<s>>
    ELSE LET k == CHOOSE i \in 1..Len(s) :
                      /\ s[i] = sep
                      /\ \A j \in 1..(i - 1) : s[j] # sep
         IN <<SubSeq(s, 1, k - 1)>> \o Split(SubSeq(s, k + 1, Len(s)), sep)

(***************************************************************************)
(* normalize (lines 9-12).                                                 *)
(***************************************************************************)
\* a normalize that also removes inner blanks
normalize_noblank(t) ==
    IF t = <<>> THEN <<>>
    ELSE RemoveChar(RemoveChar(RemoveChar(Lower(Strip(t)), "-"), "_"), " ")

normalize(t) ==
    IF t = <<>> THEN <<>>
    ELSE RemoveChar(RemoveChar(Lower(Strip(t)), "-"), "_")

(***************************************************************************)
(* normalize in isolation: every string of at most MaxLen characters over  *)
(* NormAlphabet, and the strings the documentation names, normalised once  *)
(* and then once more.                                                     *)
(***************************************************************************)
NormAlphabet == {"a", "B", " ", "-", "_"}

RECURSIVE StringsUpTo(_, _)
StringsUpTo(alphabet, n) ==
    IF n = 0 THEN {<<>>}
    ELSE LET shorter == StringsUpTo(alphabet, n - 1)
         IN shorter \cup {Append(s, c) : s \in shorter, c \in alphabet}

BigDashData == <<"B","i","g","-","D","a","t","a">>
bigUnderData == <<"b","i","g","_","d","a","t","a">>
bigdata == <<"b","i","g","d","a","t","a">>

NormInputs == StringsUpTo(NormAlphabet, MaxLen) \cup {BigDashData, bigUnderData}

Idle ==
    /\ pc = "idle"
    /\ raw_data = <<>>
    /\ structured_data = <<>>
    /\ query = <<>>
    /\ skill_phrase = <<>>
    /\ skill_parts = <<>>
    /\ top_matches = <<>>
    /\ results = <<>>
    /\ semantic = <<>>
    /\ final_matches = <<>>
    /\ err = "none"

InitNorm ==
    /\ Idle
    /\ text \in NormInputs
    /\ normed = <<>>

\* one call of normalize: on text, then on the previous result
Normalize ==
    /\ pc = "idle"
    /\ Len(normed) < 2
    /\ normed' = Append(normed, normalize(IF normed = <<>> THEN text ELSE normed[Len(normed)]))
    /\ UNCHANGED <<pc, raw_data, structured_data, query, skill_phrase, skill_parts,
                   top_matches, results, semantic, final_matches, err, text>>

NextNorm == Normalize

SpecNorm == InitNorm /\ [][NextNorm]_vars

\* C7: normalize is idempotent on every string, and "Big-Data" and "big_data"
\* both normalise to "bigdata".
C7_NormalizeIdempotent ==
    /\ (Len(normed) = 2 => normed[2] = normed[1])
    /\ (Len(normed) >= 1 /\ text \in {BigDashData, bigUnderData} => normed[1] = bigdata)

(***************************************************************************)
(* Ingestion (lines 94-162).  Of an employee entry the model keeps the id, *)
(* the skills and the courses; the display fields (name, jobLevel,         *)
(* company, mailID) and the certifications are only copied and printed.    *)
(***************************************************************************)
YES == <<"Y","E","S">>
NO == <<"N","O">>
yes == <<"y","e","s">>
EXPERT == <<"E","X","P","E","R","T">>
PROFICIENT == <<"P","R","O","F","I","C","I","E","N","T">>
COMPETENT == <<"C","O","M","P","E","T","E","N","T">>
BEGINNER == <<"B","E","G","I","N","N","E","R">>
Expert == <<"E","x","p","e","r","t">>

\* an entry of emp["skills"]; an absent field is the value its .get() defaults to
RawSkill(path, proficiency, isPrimary, isCurrent, months) ==
    [path |-> path, proficiency |-> proficiency, isPrimary |-> isPrimary,
     isCurrent |-> isCurrent, experienceProjectMths |-> months]

\* an entry of emp["courses"]
RawCourse(courseName, completedon) ==
    [courseName |-> courseName, completedon |-> completedon]

\* clean_skills that keeps every entry with a non-empty normalised name
RECURSIVE clean_skills_nodedup(_, _)
clean_skills_nodedup(skills_struct, seen) ==
    IF skills_struct = <<>> THEN <<>>
    ELSE LET s == Head(skills_struct)
             name == normalize(s.name)
         IN IF name # <<>>
            THEN <<s>> \o clean_skills_nodedup(Tail(skills_struct), seen \cup {name})
            ELSE clean_skills_nodedup(Tail(skills_struct), seen)

\* clean_skills (lines 70-78), called with seen = {}
RECURSIVE clean_skills(_, _)
clean_skills(skills_struct, seen) ==
    IF skills_struct = <<>> THEN <<>>
    ELSE LET s == Head(skills_struct)
             name == normalize(s.name)
         IN IF name # <<>> /\ name \notin seen
            THEN <<s>> \o clean_skills(Tail(skills_struct), seen \cup {name})
            ELSE clean_skills(Tail(skills_struct), seen)

\* lines 102-112
build_skills_struct(emp) ==
    LET kept == SelectSeq(emp.skills, LAMBDA s : s.path # <<>>)
        built == [i \in 1..Len(kept) |->
                     [name |-> kept[i].path,
                      proficiency |-> kept[i].proficiency,
                      isPrimary |-> kept[i].isPrimary,
                      isCurrent |-> kept[i].isCurrent,
                      experienceProjectMths |-> kept[i].experienceProjectMths]]
    IN clean_skills(built, {})

\* lines 116-122
build_courses_struct(emp) ==
    LET kept == SelectSeq(emp.courses, LAMBDA c : c.courseName # <<>>)
    IN [i \in 1..Len(kept) |->
           [name |-> kept[i].courseName, completedOn |-> kept[i].completedon]]

\* lines 152-162
build_profile(emp) ==
    [empID |-> emp.empID,
     skills_struct |-> build_skills_struct(emp),
     courses_struct |-> build_courses_struct(emp)]

\* the loop of lines 94-162 and the store of lines 164-174
Ingest ==
    /\ pc = "start"
    /\ structured_data' = [i \in 1..Len(raw_data) |-> build_profile(raw_data[i])]
    /\ pc' = "input"
    /\ UNCHANGED <<raw_data, query, skill_phrase, skill_parts, top_matches, results,
                   semantic, final_matches, err, text, normed>>

(***************************************************************************)
(* The skill list construction in isolation: one employee whose skill      *)
(* entries are every sequence of at most MaxEntries names of CleanNames.   *)
(* Entry i carries i as its months, which tells equal names apart.         *)
(***************************************************************************)
CleanNames ==
    { <<>>, <<"-">>, BigDashData, bigUnderData, <<"N","L","P">>, <<" ","n","l","p"," ">> }

RECURSIVE SeqsUpTo(_, _)
SeqsUpTo(S, n) ==
    IF n = 0 THEN {<<>>}
    ELSE LET shorter == SeqsUpTo(S, n - 1)
         IN shorter \cup {Append(s, x) : s \in shorter, x \in S}

InitClean ==
    /\ pc = "start"
    /\ \E names \in SeqsUpTo(CleanNames, MaxEntries) :
           raw_data = << [empID |-> 1,
                          skills |-> [i \in 1..Len(names) |->
                                         RawSkill(names[i], EXPERT, NO, YES, i)],
                          courses |-> <<>>] >>
    /\ structured_data = <<>>
    /\ query = <<>>
    /\ skill_phrase = <<>>
    /\ skill_parts = <<>>
    /\ top_matches = <<>>
    /\ results = <<>>
    /\ semantic = <<>>
    /\ final_matches = <<>>
    /\ err = "none"
    /\ text = <<>>
    /\ normed = <<>>

NextClean == Ingest

SpecClean == InitClean /\ [][NextClean]_vars

\* the positions of the raw entries that are the first with their normalised
\* name, that name not being empty
FirstOccurrences(entries) ==
    { i \in 1..Len(entries) :
        /\ normalize(entries[i].path) # <<>>
        /\ \A j \in 1..(i - 1) : normalize(entries[j].path) # normalize(entries[i].path) }

\* the entries at the positions of I, in source order
RECURSIVE PickInOrder(_, _, _)
PickInOrder(entries, I, i) ==
    IF i > Len(entries) THEN <<>>
    ELSE (IF i \in I THEN <<entries[i]>> ELSE <<>>) \o PickInOrder(entries, I, i + 1)

\* C9: a profile's skill list has no entry with an empty normalised name, no two
\* entries with the same normalised name, and is the subsequence of the input
\* made of the first occurrence of each non-empty normalised name.
C9_SkillsDeduplicated ==
    pc # "start" =>
        \A p \in 1..Len(structured_data) :
            LET out == structured_data[p].skills_struct
                in == raw_data[p].skills
                first == PickInOrder(in, FirstOccurrences(in), 1)
            IN /\ \A i \in 1..Len(out) : normalize(out[i].name) # <<>>
               /\ \A i, j \in 1..Len(out) :
                      i # j => normalize(out[i].name) # normalize(out[j].name)
               /\ Len(out) = Len(first)
               /\ \A i \in 1..Len(out) :
                      /\ out[i].name = first[i].path
                      /\ out[i].experienceProjectMths = first[i].experienceProjectMths

\* a skill list was built from entries with an empty name, an empty normalised
\* name and a repeated normalised name
C9_Witness ==
    /\ pc = "input"
    /\ Len(structured_data) = 1
    /\ Len(raw_data[1].skills) = 3
    /\ Len(structured_data[1].skills_struct) = 1
    /\ \E i \in 1..3 : raw_data[1].skills[i].path = <<"-">>
    /\ \E i, j \in 1..3 :
           /\ i < j
           /\ raw_data[1].skills[i].path = BigDashData
           /\ raw_data[1].skills[j].path = bigUnderData

(***************************************************************************)
(* Matching strategies (lines 14-58).  A match refers to its profile by    *)
(* the profile's position in structured_data.                              *)
(***************************************************************************)
NoSkill == [name |-> <<>>, proficiency |-> <<>>, isPrimary |-> <<>>,
            isCurrent |-> <<>>, experienceProjectMths |-> 0]

NoCourse == [name |-> <<>>, completedOn |-> <<>>]

\* {"profile": profile, "skill": s}
SkillMatch(i, s) ==
    [profile |-> i, has_skill |-> TRUE, skill |-> s,
     has_course |-> FALSE, course |-> NoCourse, match_type |-> "unset"]

\* {"profile": profile, "course": c}
CourseMatch(i, c) ==
    [profile |-> i, has_skill |-> FALSE, skill |-> NoSkill,
     has_course |-> TRUE, course |-> c, match_type |-> "unset"]

\* any(part in name for part in parts)
AnyPartIn(parts, name) == \E k \in 1..Len(parts) : Contains(name, parts[k])

\* all(part in name for part in parts)
AllPartsIn(parts, name) == \A k \in 1..Len(parts) : Contains(name, parts[k])

\* the scan "for x in seq: if hit(x): ...; break", given for each position
\* whether it hits: the first position that hits, 0 when none does
FirstHit(hits) ==
    IF \E i \in 1..Len(hits) : hits[i]
    THEN CHOOSE i \in 1..Len(hits) : hits[i] /\ \A j \in 1..(i - 1) : ~hits[j]
    ELSE 0

\* the positions of the profiles whose scan hit, in corpus order
HitProfiles(at) == SelectSeq([i \in 1..Len(at) |-> i], LAMBDA i : at[i] # 0)

\* matches.append({"profile": profile, "skill": s}) for each profile whose scan
\* hit, at[i] being the position of the skill that hit in profile i
SkillMatches(data, at) ==
    LET idx == HitProfiles(at)
    IN [j \in 1..Len(idx) |-> SkillMatch(idx[j], data[idx[j]].skills_struct[at[idx[j]]])]

\* matches.append({"profile": profile, "course": c})
CourseMatches(data, at) ==
    LET idx == HitProfiles(at)
    IN [j \in 1..Len(idx) |-> CourseMatch(idx[j], data[idx[j]].courses_struct[at[idx[j]]])]

\* lines 14-27
find_skill_matches(phrase, data, partial) ==
    LET skill_phrase_norm == normalize(phrase)
        pieces == Split(phrase, "|")
        parts == [k \in 1..Len(pieces) |-> normalize(pieces[k])]
        at == [i \in 1..Len(data) |->
                  FirstHit([k \in 1..Len(data[i].skills_struct) |->
                      LET name == normalize(data[i].skills_struct[k].name)
                      IN \/ skill_phrase_norm = name
                         \/ partial /\ AnyPartIn(parts, name)])]
    IN SkillMatches(data, at)

\* lines 29-37
find_and_matches(parts, data) ==
    LET at == [i \in 1..Len(data) |->
                  FirstHit([k \in 1..Len(data[i].skills_struct) |->
                      AllPartsIn(parts, normalize(data[i].skills_struct[k].name))])]
    IN SkillMatches(data, at)

\* find_or_matches that asks for every part
find_or_matches_all(parts, data) ==
    find_and_matches(parts, data)

\* lines 39-47
find_or_matches(parts, data) ==
    LET at == [i \in 1..Len(data) |->
                  FirstHit([k \in 1..Len(data[i].skills_struct) |->
                      AnyPartIn(parts, normalize(data[i].skills_struct[k].name))])]
    IN SkillMatches(data, at)

\* lines 49-58
find_course_matches(phrase, data) ==
    LET skill_phrase_norm == normalize(phrase)
        at == [i \in 1..Len(data) |->
                  FirstHit([k \in 1..Len(data[i].courses_struct) |->
                      LET course_name == normalize(data[i].courses_struct[k].name)
                      IN \/ Contains(course_name, skill_phrase_norm)
                         \/ AnyPartIn(Split(skill_phrase_norm, "|"), course_name)])]
    IN CourseMatches(data, at)

(***************************************************************************)
(* The query (lines 177-191).                                              *)
(***************************************************************************)
WhoKnows == <<"w","h","o"," ","k","n","o","w","s"," ">>

\* re.search(r"who knows (.+?)(\?|$)", query.lower()), then group(1).strip():
\* the leftmost "who knows " with a character after it; the group is the
\* shortest non-empty run after it that a "?" or the end of the text follows.
\* found is FALSE for None.
extract_skill_phrase(q) ==
    LET low == Lower(q)
        Starts == { i \in 0..Len(low) :
                      MatchAt(low, WhoKnows, i) /\ i + Len(WhoKnows) < Len(low) }
    IN IF Starts = {} THEN [found |-> FALSE, value |-> <<>>]
       ELSE LET i == CHOOSE x \in Starts : \A y \in Starts : x <= y
                b == i + Len(WhoKnows) + 1
                e == CHOOSE x \in b..Len(low) :
                         /\ x = Len(low) \/ low[x + 1] = "?"
                         /\ \A y \in b..(x - 1) : ~(y = Len(low) \/ low[y + 1] = "?")
            IN [found |-> TRUE, value |-> Strip(SubSeq(low, b, e))]

\* line 190
rewrite_phrase(phrase) ==
    Replace(Replace(phrase, <<" ","a","n","d"," ">>, <<"|">>), <<" ","o","r"," ">>, <<"|">>)

\* line 191
split_parts(phrase) ==
    [k \in 1..Len(Split(phrase, "|")) |-> normalize(Split(phrase, "|")[k])]

QNlpAndBigData == <<"w","h","o"," ","k","n","o","w","s"," ","n","l","p"," ","a","n","d"," ","b","i","g"," ","d","a","t","a","?">>
QBigData == <<"W","h","o"," ","k","n","o","w","s"," ","B","i","g"," ","D","a","t","a">>
QHello == <<"h","e","l","l","o">>

\* the texts typed at the prompt
Queries == {QNlpAndBigData, QBigData, QHello}

\* lines 186-188: no phrase, the script exits
NoPhrase ==
    /\ pc = "input"
    /\ \E q \in Queries :
           /\ ~extract_skill_phrase(q).found \/ extract_skill_phrase(q).value = <<>>
           /\ query' = q
    /\ pc' = "exit"
    /\ UNCHANGED <<raw_data, structured_data, skill_phrase, skill_parts, top_matches,
                   results, semantic, final_matches, err, text, normed>>

\* lines 177-191
ReadQuery ==
    /\ pc = "input"
    /\ \E q \in Queries :
           /\ extract_skill_phrase(q).found
           /\ extract_skill_phrase(q).value # <<>>
           /\ query' = q
           /\ skill_phrase' = rewrite_phrase(extract_skill_phrase(q).value)
           /\ skill_parts' = split_parts(rewrite_phrase(extract_skill_phrase(q).value))
    /\ pc' = "exact"
    /\ UNCHANGED <<raw_data, structured_data, top_matches, results, semantic,
                   final_matches, err, text, normed>>

(***************************************************************************)
(* The cascade (lines 196-231).                                            *)
(***************************************************************************)
empID(m) == structured_data[m.profile].empID

\* for m in matches: m["match_type"] = tag
Tag(matches, tag) == [k \in 1..Len(matches) |-> [matches[k] EXCEPT !.match_type = tag]]

\* a filter that lets every match through
NotYetPresent_all(matches, merged) == matches

\* existing_ids = {...}; [m for m in matches if m["profile"]["empID"] not in existing_ids]
NotYetPresent(matches, merged) ==
    LET existing_ids == { empID(merged[k]) : k \in 1..Len(merged) }
    IN SelectSeq(matches, LAMBDA m : empID(m) \notin existing_ids)

\* lines 198-201
ExactTier ==
    /\ pc = "exact"
    /\ top_matches' =
           top_matches \o Tag(find_skill_matches(skill_phrase, structured_data, FALSE), "exact")
    /\ pc' = "and"
    /\ UNCHANGED <<raw_data, structured_data, query, skill_phrase, skill_parts, results,
                   semantic, final_matches, err, text, normed>>

\* lines 203-209
AndTier ==
    /\ pc = "and"
    /\ top_matches' =
           IF Len(skill_parts) > 1
           THEN top_matches \o
                NotYetPresent(Tag(find_and_matches(skill_parts, structured_data), "and"),
                              top_matches)
           ELSE top_matches
    /\ pc' = "or"
    /\ UNCHANGED <<raw_data, structured_data, query, skill_phrase, skill_parts, results,
                   semantic, final_matches, err, text, normed>>

\* lines 211-217
OrTier ==
    /\ pc = "or"
    /\ top_matches' =
           IF Len(skill_parts) > 1
           THEN top_matches \o
                NotYetPresent(Tag(find_or_matches(skill_parts, structured_data), "or"),
                              top_matches)
           ELSE top_matches
    /\ pc' = "partial"
    /\ UNCHANGED <<raw_data, structured_data, query, skill_phrase, skill_parts, results,
                   semantic, final_matches, err, text, normed>>

\* lines 219-224
PartialTier ==
    /\ pc = "partial"
    /\ top_matches' =
           top_matches \o
           NotYetPresent(Tag(find_skill_matches(skill_phrase, structured_data, TRUE), "partial"),
                         top_matches)
    /\ pc' = "course"
    /\ UNCHANGED <<raw_data, structured_data, query, skill_phrase, skill_parts, results,
                   semantic, final_matches, err, text, normed>>

\* lines 226-231
CourseTier ==
    /\ pc = "course"
    /\ top_matches' =
           top_matches \o
           NotYetPresent(Tag(find_course_matches(skill_phrase, structured_data), "course"),
                         top_matches)
    /\ pc' = "fallback"
    /\ UNCHANGED <<raw_data, structured_data, query, skill_phrase, skill_parts, results,
                   semantic, final_matches, err, text, normed>>

(***************************************************************************)
(* The semantic fallback (lines 233-252).                                  *)
(***************************************************************************)
\* line 233: fewer matches than this start the fallback
FallbackBelow == 3
\* line 236: n_results
NResults == 3
\* line 251: the loop breaks once len(top_matches) + 1 reaches this
BreakAt == 3

RECURSIVE Arrangements(_, _)
Arrangements(S, n) ==
    IF n = 0 THEN {<<>>}
    ELSE { Append(s, x) : s \in Arrangements(S, n - 1), x \in S } \
         { s \in SeqsUpTo(S, n) : \E i, j \in 1..Len(s) : i # j /\ s[i] = s[j] }

\* what collection.query(n_results=3) may return: the metadata (line 139) of
\* NResults stored documents, or of all of them when fewer are stored, in the
\* order of a similarity the model leaves open
QueryResults ==
    LET n == IF Len(structured_data) < NResults THEN Len(structured_data) ELSE NResults
        picks == Arrangements(1..Len(structured_data), n)
    IN { [k \in 1..n |-> [empID |-> structured_data[r[k]].empID]] : r \in picks }

\* the loop of lines 238-252 over the documents still to visit; count is
\* len(top_matches), which the loop never changes.  The result is the list of
\* the documents printed as semantic matches.
RECURSIVE fallback_loop(_, _, _)
fallback_loop(docs, existing_ids, count) ==
    IF docs = <<>> THEN <<>>
    ELSE IF Head(docs).empID \in existing_ids
         THEN fallback_loop(Tail(docs), existing_ids, count)
         ELSE IF count + 1 >= BreakAt
              THEN <<Head(docs)>>
              ELSE <<Head(docs)>> \o fallback_loop(Tail(docs), existing_ids, count)

\* line 233 false: the fallback block is skipped
SkipFallback ==
    /\ pc = "fallback"
    /\ ~(Len(top_matches) < FallbackBelow)
    /\ pc' = "rank"
    /\ UNCHANGED <<raw_data, structured_data, query, skill_phrase, skill_parts, top_matches,
                   results, semantic, final_matches, err, text, normed>>

\* lines 233-252
Fallback ==
    /\ pc = "fallback"
    /\ Len(top_matches) < FallbackBelow
    /\ \E r \in QueryResults :
           /\ results' = r
           /\ semantic' = fallback_loop(r, { empID(top_matches[k]) : k \in 1..Len(top_matches) },
                                        Len(top_matches))
    /\ pc' = "rank"
    /\ UNCHANGED <<raw_data, structured_data, query, skill_phrase, skill_parts, top_matches,
                   final_matches, err, text, normed>>

\* lines 235-236: model.encode or collection.query raises; nothing catches it
FallbackFails ==
    /\ pc = "fallback"
    /\ Len(top_matches) < FallbackBelow
    /\ \E e \in {"EmbeddingProviderError", "VectorIndexError"} : err' = e
    /\ pc' = "error"
    /\ UNCHANGED <<raw_data, structured_data, query, skill_phrase, skill_parts, top_matches,
                   results, semantic, final_matches, text, normed>>

(***************************************************************************)
(* The ranking (lines 60-68 and 254-271).                                  *)
(***************************************************************************)
\* proficiency_order.get(p.upper(), 0)
proficiency_order(p) ==
    LET u == Upper(p)
    IN IF u = EXPERT THEN 4
       ELSE IF u = PROFICIENT THEN 3
       ELSE IF u = COMPETENT THEN 2
       ELSE IF u = BEGINNER THEN 1
       ELSE 0

\* a key that puts the current status before the experience
skill_sort_key_current_first(match) ==
    LET s == match.skill
    IN << IF Upper(s.isCurrent) = YES THEN -1 ELSE 0,
          -(s.experienceProjectMths),
          IF Upper(s.isPrimary) = YES THEN 1 ELSE 0,
          -(proficiency_order(s.proficiency)) >>

\* lines 60-68, for a match that has a "skill"
skill_sort_key(match) ==
    LET s == match.skill
    IN << -(s.experienceProjectMths),
          IF Upper(s.isCurrent) = YES THEN -1 ELSE 0,
          IF Upper(s.isPrimary) = YES THEN 1 ELSE 0,
          -(proficiency_order(s.proficiency)) >>

\* Python's a < b on two tuples of the same length
TupleLess(a, b) ==
    \E i \in 1..Len(a) :
        /\ a[i] < b[i]
        /\ \A j \in 1..(i - 1) : a[j] = b[j]

\* sorted(seq, key=skill_sort_key): ascending and stable
RECURSIVE sorted(_)
sorted(seq) ==
    IF seq = <<>> THEN <<>>
    ELSE LET n == Len(seq)
             x == seq[n]
             front == sorted(SubSeq(seq, 1, n - 1))
             before == { i \in 1..Len(front) :
                           \A j \in 1..i :
                               ~TupleLess(skill_sort_key(x), skill_sort_key(front[j])) }
             k == Cardinality(before)
         IN SubSeq(front, 1, k) \o <<x>> \o SubSeq(front, k + 1, Len(front))

\* the slice [:2] of line 271
TopOthers == 2

\* seq[:n]
Take(seq, n) == SubSeq(seq, 1, IF Len(seq) < n THEN Len(seq) ELSE n)

\* line 255
exacts_of(merged) == SelectSeq(merged, LAMBDA m : m.match_type = "exact")

\* line 260
ands_of(merged) == SelectSeq(merged, LAMBDA m : m.match_type = "and")

\* line 263
non_exacts_of(merged) == SelectSeq(merged, LAMBDA m : m.match_type \notin {"exact", "and"})

\* the matches skill_sort_key is called on (lines 256, 261, 264)
keyed(merged) ==
    exacts_of(merged)
    \o (IF exacts_of(merged) = <<>> THEN ands_of(merged) ELSE <<>>)
    \o non_exacts_of(merged)

\* a selection that keeps three of the other matches
select_final_three(merged) ==
    LET exacts == exacts_of(merged)
        ands == ands_of(merged)
    IN (IF exacts # <<>> THEN <<sorted(exacts)[1]>>
        ELSE IF ands # <<>> THEN <<sorted(ands)[1]>>
        ELSE <<>>)
       \o Take(sorted(non_exacts_of(merged)), TopOthers + 1)

\* lines 255-271
select_final(merged) ==
    LET exacts == exacts_of(merged)
        ands == ands_of(merged)
    IN (IF exacts # <<>> THEN <<sorted(exacts)[1]>>
        ELSE IF ands # <<>> THEN <<sorted(ands)[1]>>
        ELSE <<>>)
       \o Take(sorted(non_exacts_of(merged)), TopOthers)

\* line 254 false: nothing is ranked or printed
RankNothing ==
    /\ pc = "rank"
    /\ top_matches = <<>>
    /\ pc' = "done"
    /\ UNCHANGED <<raw_data, structured_data, query, skill_phrase, skill_parts, top_matches,
                   results, semantic, final_matches, err, text, normed>>

\* line 62: match["skill"] on a match without a skill raises KeyError
RankKeyError ==
    /\ pc = "rank"
    /\ top_matches # <<>>
    /\ \E k \in 1..Len(keyed(top_matches)) : ~keyed(top_matches)[k].has_skill
    /\ err' = "KeyError"
    /\ pc' = "error"
    /\ UNCHANGED <<raw_data, structured_data, query, skill_phrase, skill_parts, top_matches,
                   results, semantic, final_matches, text, normed>>

\* lines 254-282
Rank ==
    /\ pc = "rank"
    /\ top_matches # <<>>
    /\ \A k \in 1..Len(keyed(top_matches)) : keyed(top_matches)[k].has_skill
    /\ final_matches' = select_final(top_matches)
    /\ pc' = "done"
    /\ UNCHANGED <<raw_data, structured_data, query, skill_phrase, skill_parts, top_matches,
                   results, semantic, err, text, normed>>

(***************************************************************************)
(* The corpus: up to MaxProfiles entries taken from Employees, entry i     *)
(* with empID i (collection.add of line 174 refuses a repeated id).        *)
(***************************************************************************)
Hadoop == <<"H","a","d","o","o","p">>
BigData101 == <<"B","i","g"," ","D","a","t","a"," ","1","0","1">>
Y2021 == <<"2","0","2","1">>

EmpBigData ==
    [skills |-> << RawSkill(<<"B","i","g"," ","D","a","t","a">>, EXPERT, YES, NO, 36) >>,
     courses |-> <<>>]

EmpBigDataJunior ==
    [skills |-> << RawSkill(<<"b","i","g"," ","d","a","t","a">>, BEGINNER, NO, yes, 12) >>,
     courses |-> <<>>]

EmpNlpEngineering ==
    [skills |-> << RawSkill(<<"N","L","P","-","B","i","g","D","a","t","a","-","E","n","g","i","n","e","e","r","i","n","g">>,
                            PROFICIENT, NO, YES, 36) >>,
     courses |-> <<>>]

EmpCombined ==
    [skills |-> << RawSkill(<<"n","l","p","|","b","i","g"," ","d","a","t","a">>, Expert, YES, YES, 6) >>,
     courses |-> <<>>]

EmpNlpBigData ==
    [skills |-> << RawSkill(Hadoop, EXPERT, NO, YES, 60),
                   RawSkill(<<"N","L","P"," ","B","i","g"," ","D","a","t","a">>, COMPETENT, NO, NO, 48) >>,
     courses |-> <<>>]

EmpNlpBasics ==
    [skills |-> << RawSkill(<<"N","L","P"," ","B","a","s","i","c","s">>, EXPERT, YES, YES, 12) >>,
     courses |-> <<>>]

EmpCourseOnly ==
    [skills |-> << RawSkill(Hadoop, <<>>, <<>>, <<>>, 0) >>,
     courses |-> << RawCourse(<<>>, Y2021), RawCourse(BigData101, Y2021) >>]

Employees ==
    {EmpBigData, EmpBigDataJunior, EmpNlpEngineering, EmpCombined, EmpNlpBigData,
     EmpNlpBasics, EmpCourseOnly}

Init ==
    /\ pc = "start"
    /\ \E n \in 1..MaxProfiles :
           \E emps \in [1..n -> Employees] :
               raw_data = [i \in 1..n |->
                              [empID |-> i, skills |-> emps[i].skills,
                               courses |-> emps[i].courses]]
    /\ structured_data = <<>>
    /\ query = <<>>
    /\ skill_phrase = <<>>
    /\ skill_parts = <<>>
    /\ top_matches = <<>>
    /\ results = <<>>
    /\ semantic = <<>>
    /\ final_matches = <<>>
    /\ err = "none"
    /\ text = <<>>
    /\ normed = <<>>

Next ==
    \/ Ingest
    \/ NoPhrase
    \/ ReadQuery
    \/ ExactTier
    \/ AndTier
    \/ OrTier
    \/ PartialTier
    \/ CourseTier
    \/ SkipFallback
    \/ Fallback
    \/ FallbackFails
    \/ RankNothing
    \/ RankKeyError
    \/ Rank

Spec == Init /\ [][Next]_vars

(***************************************************************************)
(* The tier predicates as the design states them, for profile i of         *)
(* structured_data under the current skill_phrase and skill_parts.         *)
(***************************************************************************)
SkillNames(i) ==
    { normalize(structured_data[i].skills_struct[k].name) :
        k \in 1..Len(structured_data[i].skills_struct) }

CourseNames(i) ==
    { normalize(structured_data[i].courses_struct[k].name) :
        k \in 1..Len(structured_data[i].courses_struct) }

PartSet == { skill_parts[k] : k \in 1..Len(skill_parts) }

SatExact(i) == normalize(skill_phrase) \in SkillNames(i)

SatAnd(i) ==
    /\ Len(skill_parts) >= 2
    /\ \E name \in SkillNames(i) : \A part \in PartSet : Contains(name, part)

SatOr(i) ==
    /\ Len(skill_parts) >= 2
    /\ \E name \in SkillNames(i) : \E part \in PartSet : Contains(name, part)

SatPartial(i) ==
    \E name \in SkillNames(i) :
        \/ name = normalize(skill_phrase)
        \/ \E part \in PartSet : Contains(name, part)

SatCourse(i) ==
    \E name \in CourseNames(i) :
        \/ Contains(name, normalize(skill_phrase))
        \/ \E k \in 1..Len(Split(normalize(skill_phrase), "|")) :
               Contains(name, Split(normalize(skill_phrase), "|")[k])

HighestTier(i) ==
    IF SatExact(i) THEN "exact"
    ELSE IF SatAnd(i) THEN "and"
    ELSE IF SatOr(i) THEN "or"
    ELSE IF SatPartial(i) THEN "partial"
    ELSE IF SatCourse(i) THEN "course"
    ELSE "none"

\* the employee ids of a list of matches are pairwise different
DistinctIds(matches) ==
    \A a, b \in 1..Len(matches) : a # b => empID(matches[a]) # empID(matches[b])

\* C1: the merged list holds at most one match per employee id, each tagged with
\* the highest-priority tier whose predicate its profile satisfies; a profile
\* that satisfies the exact predicate and the AND or OR predicate appears
\* exactly once, tagged exact.
C1_TierPrecedence ==
    /\ DistinctIds(top_matches)
    /\ pc = "fallback" =>
           /\ \A k \in 1..Len(top_matches) :
                  top_matches[k].match_type = HighestTier(top_matches[k].profile)
           /\ \A i \in 1..Len(structured_data) :
                  SatExact(i) /\ (SatAnd(i) \/ SatOr(i)) =>
                      /\ Cardinality({ k \in 1..Len(top_matches) : top_matches[k].profile = i }) = 1
                      /\ \A k \in 1..Len(top_matches) :
                             top_matches[k].profile = i => top_matches[k].match_type = "exact"

\* the cascade ended with a profile that satisfies the exact, the AND and the OR
\* predicate, and with matches of lower tiers after it
C1_Witness ==
    /\ pc = "fallback"
    /\ \E i \in 1..Len(structured_data) : SatExact(i) /\ SatAnd(i) /\ SatOr(i)
    /\ \E k \in 1..Len(top_matches) : top_matches[k].match_type = "and"
    /\ \E k \in 1..Len(top_matches) : top_matches[k].match_type = "or"
    /\ \E k \in 1..Len(top_matches) : top_matches[k].match_type = "course"

\* C2: the final list has at most 3 entries and no employee id twice.
C2_FinalCapAndDedup ==
    /\ Len(final_matches) <= 3
    /\ DistinctIds(final_matches)

\* a final list of three was selected from a longer merged list
C2_Witness ==
    /\ pc = "done"
    /\ Len(final_matches) = 3
    /\ Len(top_matches) > 3

\* the documents of results a correct fallback emits after count symbolic
\* matches: those whose id is not merged yet, in order, until the total is 3
RECURSIVE FillToThree(_, _, _)
FillToThree(docs, ids, count) ==
    IF docs = <<>> \/ count >= 3 THEN <<>>
    ELSE IF Head(docs).empID \in ids THEN FillToThree(Tail(docs), ids, count)
         ELSE <<Head(docs)>> \o FillToThree(Tail(docs), ids, count + 1)

FallbackErrors == {"EmbeddingProviderError", "VectorIndexError"}

\* C3: with k < 3 symbolic matches the fallback walks the returned documents in
\* order, skips the ids already merged and stops once symbolic plus semantic
\* matches total 3, so their sum never exceeds 3; with k >= 3 it is not invoked.
C3_FallbackFillsToThree ==
    (pc \in {"rank", "done"} \/ err = "KeyError") =>
        IF Len(top_matches) >= 3
        THEN results = <<>> /\ semantic = <<>>
        ELSE /\ semantic = FillToThree(results,
                               { empID(top_matches[k]) : k \in 1..Len(top_matches) },
                               Len(top_matches))
             /\ Len(top_matches) + Len(semantic) <= 3

\* the key the design gives a match: that of its skill, or the default key
DesignKey(m) ==
    IF m.has_skill
    THEN << -(m.skill.experienceProjectMths),
            IF Upper(m.skill.isCurrent) = YES THEN -1 ELSE 0,
            IF Upper(m.skill.isPrimary) = YES THEN 1 ELSE 0,
            -(proficiency_order(m.skill.proficiency)) >>
    ELSE <<0, 0, 0, 0>>

Terminated == pc \in {"done", "exit", "error"}

\* C4: a merged list that holds a course match is ranked to the end, the course
\* match ordered by the default key (0, 0, 0, 0), instead of ending in an error.
C4_CourseMatchesRanked ==
    ( /\ Terminated
      /\ err \notin FallbackErrors
      /\ \E k \in 1..Len(top_matches) : top_matches[k].match_type = "course" ) =>
        /\ pc = "done"
        /\ final_matches # <<>>
        /\ \A a, b \in 1..Len(final_matches) :
               ( /\ a < b
                 /\ final_matches[a].match_type \notin {"exact", "and"}
                 /\ final_matches[b].match_type \notin {"exact", "and"} ) =>
                   ~TupleLess(DesignKey(final_matches[b]), DesignKey(final_matches[a]))

\* C5: when the embedding provider or the vector index fails in the fallback,
\* the symbolic matches already collected are still ranked and returned.
C5_FallbackFailureKeepsMatches ==
    ( /\ Terminated
      /\ err \in FallbackErrors
      /\ top_matches # <<>>
      /\ \A k \in 1..Len(top_matches) : top_matches[k].has_skill ) =>
        /\ pc = "done"
        /\ final_matches # <<>>

(***************************************************************************)
(* The ranking order as the design states it.                              *)
(***************************************************************************)
Months(m) == m.skill.experienceProjectMths
IsCurrent(m) == Upper(m.skill.isCurrent) = YES
IsPrimary(m) == Upper(m.skill.isPrimary) = YES
Rank4(m) == proficiency_order(m.skill.proficiency)

\* a ranks strictly before b: more months; at equal months, current before not
\* current; then not primary before primary; then the higher proficiency
RanksBefore(a, b) ==
    \/ Months(a) > Months(b)
    \/ /\ Months(a) = Months(b)
       /\ \/ IsCurrent(a) /\ ~IsCurrent(b)
          \/ /\ IsCurrent(a) = IsCurrent(b)
             /\ \/ ~IsPrimary(a) /\ IsPrimary(b)
                \/ /\ IsPrimary(a) = IsPrimary(b)
                   /\ Rank4(a) > Rank4(b)

NotAfter(a, b) == ~RanksBefore(b, a)

TaggedIn(merged, tags) == { k \in 1..Len(merged) : merged[k].match_type \in tags }

\* C6: for a merged list whose matches all carry a skill the final list is the
\* exact match with the smallest key or, without an exact match, the AND match
\* with the smallest key, then the two smallest-key matches of the other tiers
\* in ascending key order; more experience months always rank first and the
\* current status decides only at equal months.
C6_FinalSelection ==
    ( /\ pc = "done"
      /\ \A k \in 1..Len(top_matches) : top_matches[k].has_skill ) =>
        LET ex == TaggedIn(top_matches, {"exact"})
            an == TaggedIn(top_matches, {"and"})
            ot == TaggedIn(top_matches, {"or", "partial", "course", "semantic"})
            head == IF ex # {} \/ an # {} THEN 1 ELSE 0
            nrest == IF Cardinality(ot) < 2 THEN Cardinality(ot) ELSE 2
            rest == (head + 1)..Len(final_matches)
        IN /\ Len(final_matches) = head + nrest
           /\ ex # {} =>
                  /\ \E k \in ex : final_matches[1] = top_matches[k]
                  /\ \A k \in ex : NotAfter(final_matches[1], top_matches[k])
           /\ ex = {} /\ an # {} =>
                  /\ \E k \in an : final_matches[1] = top_matches[k]
                  /\ \A k \in an : NotAfter(final_matches[1], top_matches[k])
           /\ \A j \in rest : \E k \in ot : final_matches[j] = top_matches[k]
           /\ \A i, j \in rest : i < j =>
                  /\ final_matches[i] # final_matches[j]
                  /\ NotAfter(final_matches[i], final_matches[j])
                  /\ Months(final_matches[i]) >= Months(final_matches[j])
                  /\ Months(final_matches[i]) = Months(final_matches[j]) /\ IsCurrent(final_matches[j])
                         => IsCurrent(final_matches[i])
           /\ \A k \in ot :
                  (\A j \in rest : final_matches[j] # top_matches[k]) =>
                      \A j \in rest : NotAfter(final_matches[j], top_matches[k])

\* a final list of an exact match and two others of equal months, the current
\* one first, chosen over a current match with fewer months
C6_Witness ==
    /\ pc = "done"
    /\ Len(final_matches) = 3
    /\ final_matches[1].match_type = "exact"
    /\ Months(final_matches[2]) = Months(final_matches[3])
    /\ IsCurrent(final_matches[2]) /\ ~IsCurrent(final_matches[3])
    /\ \E k \in 1..Len(top_matches) :
           /\ top_matches[k].match_type = "or"
           /\ IsCurrent(top_matches[k])
           /\ Months(top_matches[k]) < Months(final_matches[3])

(***************************************************************************)
(* The phrase "nlp and big data".                                          *)
(***************************************************************************)
nlp == <<"n","l","p">>
big_data == <<"b","i","g"," ","d","a","t","a">>
NlpBigDataEngineering == <<"N","L","P","-","B","i","g","D","a","t","a","-","E","n","g","i","n","e","e","r","i","n","g">>
NlpBasics == <<"N","L","P"," ","B","a","s","i","c","s">>

\* the profiles with a skill of that name
WithSkill(name) ==
    { i \in 1..Len(structured_data) :
        \E k \in 1..Len(structured_data[i].skills_struct) :
            structured_data[i].skills_struct[k].name = name }

\* the profiles whose only skill has that name
WithOnlySkill(name) ==
    { i \in WithSkill(name) : Len(structured_data[i].skills_struct) = 1 }

\* the profiles a strategy matched
Matched(matches) == { matches[k].profile : k \in 1..Len(matches) }

C10_PartialAddsNothing ==
    Len(skill_parts) >= 2 =>
        /\ \A k \in 1..Len(top_matches) : top_matches[k].match_type # "partial"
        /\ \A k \in 1..Len(final_matches) : final_matches[k].match_type # "partial"
        /\ pc = "partial" =>
               Matched(find_skill_matches(skill_phrase, structured_data, TRUE))
                   \subseteq Matched(find_or_matches(skill_parts, structured_data))

\* the partial tier ran on a 2-part phrase and matched profiles, among them one
\* by equality with the whole phrase and one by a part
C10_Witness ==
    /\ pc = "course"
    /\ Len(skill_parts) >= 2
    /\ \E i \in Matched(find_skill_matches(skill_phrase, structured_data, TRUE)) : SatExact(i)
    /\ \E i \in Matched(find_skill_matches(skill_phrase, structured_data, TRUE)) : ~SatExact(i)
    /\ \E k \in 1..Len(top_matches) : top_matches[k].match_type = "or"

====
